---- MODULE Spec2Model ----
(***************************************************************************)
(* A model of the feed aggregation path of app.py: the time-bucketed cache *)
(* of load_articles_from, run by concurrent request threads, the entry     *)
(* normaliser, the deduplicator and sorter, the paginator, the query       *)
(* filter of the tab pages and of /search, and the assistant proxy.        *)
(*                                                                         *)
(* Text is a sequence of one-character strings.  A feed entry is a         *)
(* function whose domain is the set of keys the entry carries, so that     *)
(* entry.get(k) is a lookup with a default.  A time.struct_time is the     *)
(* pair <<tm_year, tm_mon>> of its two leading fields, compared as Python  *)
(* compares tuples.  A Python list is an object of the heap, named by its  *)
(* index, so that "the same list" and "modified in place" mean something.  *)
(***************************************************************************)
EXTENDS Integers, Sequences, FiniteSets, TLC

\* ---------------------------------------------------------------- bounds
MaxCalls == 3
MaxTicks == 2
MaxEntries == 2
MaxTotal == 23
MaxPerPage == 10
MaxPageArg == 5
MaxQueryLen == 2
MaxAsks == 2

\* ------------------------------------------------------- program constants
TTL_SECONDS == 300

\* render_feed_page's per_page
PER_PAGE == 10

\* ------------------------------------------------------------------ text
IsSpace(c) == c \in {" ", "\n"}

RECURSIVE lstrip(_)
lstrip(s) == IF s # << >> /\ IsSpace(Head(s)) THEN lstrip(Tail(s)) ELSE s

RECURSIVE rstrip(_)
rstrip(s) ==
  IF s # << >> /\ IsSpace(s[Len(s)]) THEN rstrip(SubSeq(s, 1, Len(s) - 1)) ELSE s

\* str.strip()
strip(s) == rstrip(lstrip(s))

LowerChar(c) == CASE c = "A" -> "a" [] c = "B" -> "b" [] OTHER -> c

\* str.lower()
lower(s) == [i \in 1..Len(s) |-> LowerChar(s[i])]

\* the Python test  sub in s  on strings
StrIn(sub, s) ==
  \E i \in 0..(Len(s) - Len(sub)) : SubSeq(s, i + 1, i + Len(sub)) = sub

\* ------------------------------------------------------------------ time
\* time.gmtime(0)
gmtime0 == <<1970, 1>>

\* tuple comparison  a < b
TimeLT(a, b) == a[1] < b[1] \/ (a[1] = b[1] /\ a[2] < b[2])

TimeGE(a, b) == ~TimeLT(a, b)

\* --------------------------------------------------------- feed processing
Get(e, k, default) == IF k \in DOMAIN e THEN e[k] ELSE default

\* a fallback to a late time instead of the epoch
entry_time_late(entry) ==
  IF "published_parsed" \in DOMAIN entry THEN entry["published_parsed"]
  ELSE IF "updated_parsed" \in DOMAIN entry THEN entry["updated_parsed"]
  ELSE <<2024, 2>>

entry_time(entry) ==
  IF "published_parsed" \in DOMAIN entry THEN entry["published_parsed"]
  ELSE IF "updated_parsed" \in DOMAIN entry THEN entry["updated_parsed"]
  ELSE gmtime0

normalize_entry(source, entry) ==
  [ source    |-> source,
    title     |-> strip(Get(entry, "title", << >>)),
    link      |-> Get(entry, "link", ""),
    summary   |-> IF Get(entry, "summary", << >>) # << >>
                  THEN entry["summary"]
                  ELSE Get(entry, "description", << >>),
    sort_time |-> entry_time(entry) ]

\* the test of line 119
Included(a) == a.title # << >> /\ a.link # ""

\* the inner loop of lines 117-120 over one parsed document
RECURSIVE AppendEntries(_, _, _)
AppendEntries(acc, source, entries) ==
  IF entries = << >> THEN acc
  ELSE LET a == normalize_entry(source, Head(entries))
       IN  AppendEntries(IF Included(a) THEN Append(acc, a) ELSE acc,
                         source, Tail(entries))

\* lines 123-129: dedupe by link, first seen wins
RECURSIVE DedupeFrom(_, _, _)
DedupeFrom(its, seen, deduped) ==
  IF its = << >> THEN deduped
  ELSE LET a == Head(its)
       IN  IF a.link # "" /\ a.link \notin seen
           THEN DedupeFrom(Tail(its), seen \cup {a.link}, Append(deduped, a))
           ELSE DedupeFrom(Tail(its), seen, deduped)

\* a dedupe that forgets what it has seen
DedupeForgetful(its) == SelectSeq(its, LAMBDA a : a.link # "")

Dedupe(its) == DedupeFrom(its, {}, << >>)

\* an insertion that puts a before the elements equal to it
RECURSIVE InsertDescBeforeEqual(_, _)
InsertDescBeforeEqual(a, s) ==
  IF s = << >> THEN <<a>>
  ELSE IF TimeLT(a.sort_time, Head(s).sort_time)
       THEN <<Head(s)>> \o InsertDescBeforeEqual(a, Tail(s))
       ELSE <<a>> \o s

\* list.sort(key=..., reverse=True): descending, equal keys keep their order
RECURSIVE InsertDesc(_, _)
InsertDesc(a, s) ==
  IF s = << >> THEN <<a>>
  ELSE IF TimeGE(Head(s).sort_time, a.sort_time)
       THEN <<Head(s)>> \o InsertDesc(a, Tail(s))
       ELSE <<a>> \o s

RECURSIVE SortFrom(_, _)
SortFrom(its, acc) ==
  IF its = << >> THEN acc ELSE SortFrom(Tail(its), InsertDesc(Head(its), acc))

SortDesc(its) == SortFrom(its, << >>)

\* ------------------------------------------------------------ feed groups
\* Three of the feed groups, the dashboard cut to three of its five sources.
\* The URLs are written by their hosts; UrlRank is the order of the URL strings
\* ("http://feeds.bbci.co.uk/..." < "https://news.un.org/..." <
\* "https://www.economist.com/..." < "https://www.ft.com/...").
Urls == {"feeds.bbci.co.uk", "news.un.org", "www.economist.com", "www.ft.com"}

UrlRank(u) ==
  CASE u = "feeds.bbci.co.uk" -> 0 [] u = "news.un.org" -> 1
    [] u = "www.economist.com" -> 2 [] OTHER -> 3

FEED_GROUPS ==
  [ dashboard |-> <<"feeds.bbci.co.uk", "www.ft.com", "www.economist.com">>,
    climate   |-> <<"www.ft.com", "www.economist.com">>,
    energy    |-> <<"news.un.org">> ]

Tabs == DOMAIN FEED_GROUPS

\* sorted(feeds)
RECURSIVE InsertAsc(_, _)
InsertAsc(u, s) ==
  IF s = << >> THEN <<u>>
  ELSE IF UrlRank(Head(s)) <= UrlRank(u) THEN <<Head(s)>> \o InsertAsc(u, Tail(s)) ELSE <<u>> \o s

RECURSIVE sorted(_)
sorted(s) == IF s = << >> THEN << >> ELSE InsertAsc(Head(s), sorted(Tail(s)))

now_bucket(t) == t \div TTL_SECONDS

\* line 109: ("|".join(sorted(feeds)), now_bucket)
CacheKey(fs, t) == <<sorted(fs), now_bucket(t)>>

\* ------------------------------------------------------------------ state
VARIABLES
  clock,      \* time.time(), in seconds
  CACHE,      \* the module's CACHE: key -> [ts, items], items a list of the heap
  heap,       \* the list objects built by load_articles_from, by identity
  pc,         \* each request thread's place in load_articles_from
  feeds,      \* its argument
  key,        \* its local key
  idx,        \* the position of its loop over feeds
  items,      \* its local items
  deduped,    \* its local deduped (a list of the heap; 0 before line 124)
  nfetch,     \* the calls of feedparser.parse it has made in this call
  returned,   \* the calls that have returned: their key, list and fetches
  begun,      \* the keys some call has computed
  ncalls,     \* the calls begun so far
  raw,        \* history: the documents a call has fetched, in feed order
  built,      \* history: the documents each list of the heap was built from
  pg_items,   \* paginate's items
  pg_per_page, \* paginate's per_page
  pg_arg,     \* the page last asked for
  pg_out,     \* what paginate returned for it
  pg_walk,    \* the slices of pages 1, 2, ... asked for in turn
  resp,       \* the response model of the last tab page or search request
  api_key,    \* client.api_key
  ask_pc,     \* the place of the request in assistant_ask
  ask_form,   \* its form field q
  ask_q,      \* its local q
  ask_calls,  \* the chat-completion calls it has made
  ask_resp,   \* its response
  asks        \* the requests to /assistant/ask so far

srvVars == <<clock, CACHE, heap, pc, feeds, key, idx, items, deduped, nfetch,
             returned, begun, ncalls, raw, built>>

pageVars == <<pg_items, pg_per_page, pg_arg, pg_out, pg_walk>>

askVars == <<api_key, ask_pc, ask_form, ask_q, ask_calls, ask_resp, asks>>

vars == <<srvVars, pageVars, resp, askVars>>

\* the request threads that run load_articles_from at once
Req == {1, 2}

\* ------------------------------------------------- what a fetch may return
\* feedparser.parse(url): the document's feed (with or without a title) and
\* its entries.  A source that fails to parse has no title and no entries.
T2023 == <<2023, 12>>
T2024a == <<2024, 1>>
T2024b == <<2024, 2>>
T1969 == <<1969, 12>>

EntryA == [title |-> <<"a">>, link |-> "x", published_parsed |-> T2024a]
EntryB == [title |-> <<"b">>, link |-> "y", published_parsed |-> T2024b]
EntryC == [title |-> <<"A", "b">>, link |-> "x", updated_parsed |-> T2023]

\* The entries the wide documents are made of: a duplicate link with another
\* title, an entry without a timestamp, one stamped before the epoch, one with
\* a blank title, one without a link, one stamped at the epoch, and one as old
\* as EntryA under another link.
WideEntries ==
  { EntryA,
    [title |-> <<"b">>, link |-> "x", updated_parsed |-> T2024b],
    [title |-> <<"b", " ">>, link |-> "y"],
    [title |-> <<"a">>, link |-> "z", published_parsed |-> T1969,
     updated_parsed |-> T2024b],
    [title |-> <<" ">>, link |-> "x", published_parsed |-> T2024b],
    [title |-> <<"a">>, published_parsed |-> T2024b],
    [title |-> <<"b">>, link |-> "z", published_parsed |-> gmtime0],
    [title |-> <<"a">>, link |-> "z", published_parsed |-> T2024a] }

SeqsUpTo(S, n) == UNION {[1..m -> S] : m \in 0..n}

\* any document of at most MaxEntries entries; the first source of the climate
\* group declares a title, the second none
WideDocs(url) ==
  { [feed |-> IF url = "www.ft.com" THEN [title |-> "FT"] ELSE << >>,
     entries |-> es] : es \in SeqsUpTo(WideEntries, MaxEntries) }

Unparsed == [feed |-> << >>, entries |-> << >>]

\* What each source serves when it is fetched at time t.  The second source
\* of the climate group stops parsing after the first half window.
ParsedDocs(url, t) ==
  CASE url = "www.ft.com" ->
         { [feed |-> [title |-> "FT"], entries |-> <<EntryA, EntryB>>] }
    [] url = "www.economist.com" ->
         IF t < TTL_SECONDS \div 2
         THEN { [feed |-> << >>, entries |-> <<EntryC, EntryB>>] }
         ELSE { Unparsed }
    [] OTHER ->
         { [feed |-> [title |-> "UN"], entries |-> <<EntryC, EntryB>>] }

\* line 116: parsed.feed.get("title", url)
source_name(parsed, url) == Get(parsed.feed, "title", url)

\* ------------------------------------------------------------- the cache
NoEntries == [k \in {} |-> 0]

\* a store that drops the entries of earlier buckets
CacheStoreEvicting(c, k, v) ==
  [x \in {y \in DOMAIN c : y[2] >= k[2]} \cup {k} |-> IF x = k THEN v ELSE c[x]]

\* CACHE[key] = value
CacheStore(c, k, v) == [x \in DOMAIN c \cup {k} |-> IF x = k THEN v ELSE c[x]]

\* a sort whose result is dropped
SortInPlaceLost(l) == l

\* the list deduped.sort(...) leaves in place of l
SortInPlace(l) == SortDesc(l)

NoOut == [slice |-> << >>, page |-> 0, total_pages |-> 0, total |-> 0]

NoResp == [route |-> "none"]

PageIdle ==
  /\ pg_items = << >>
  /\ pg_per_page = PER_PAGE
  /\ pg_arg = 0
  /\ pg_out = NoOut
  /\ pg_walk = << >>

AskIdle ==
  /\ api_key = ""
  /\ ask_pc = "idle"
  /\ ask_form = << >>
  /\ ask_q = << >>
  /\ ask_calls = 0
  /\ ask_resp = NoResp
  /\ asks = 0

ServerIdle ==
  /\ clock = 0
  /\ CACHE = NoEntries
  /\ heap = << >>
  /\ pc = [p \in Req |-> "idle"]
  /\ feeds = [p \in Req |-> << >>]
  /\ key = [p \in Req |-> << >>]
  /\ idx = [p \in Req |-> 0]
  /\ items = [p \in Req |-> << >>]
  /\ deduped = [p \in Req |-> 0]
  /\ nfetch = [p \in Req |-> 0]
  /\ returned = {}
  /\ begun = {}
  /\ ncalls = 0
  /\ raw = [p \in Req |-> << >>]
  /\ built = << >>

InitServer == ServerIdle /\ PageIdle /\ resp = NoResp /\ AskIdle

\* lines 108-113: the clock is read, the key computed and looked up
Begin(p, fs) ==
  /\ pc[p] = "idle"
  /\ \A q \in Req : q < p => pc[q] # "idle"
  /\ ncalls < MaxCalls
  /\ ncalls' = ncalls + 1
  /\ LET k == CacheKey(fs, clock)
     IN  /\ feeds' = [feeds EXCEPT ![p] = fs]
         /\ key' = [key EXCEPT ![p] = k]
         /\ begun' = begun \cup {k}
         /\ IF k \in DOMAIN CACHE
            THEN /\ pc' = [pc EXCEPT ![p] = "ret"]
                 /\ deduped' = [deduped EXCEPT ![p] = CACHE[k].items]
                 /\ idx' = idx
            ELSE /\ pc' = [pc EXCEPT ![p] = IF fs = << >> THEN "dedupe" ELSE "fetch"]
                 /\ deduped' = deduped
                 /\ idx' = [idx EXCEPT ![p] = 1]
  /\ UNCHANGED <<clock, CACHE, heap, items, nfetch, returned, raw, built>>
  /\ UNCHANGED <<pageVars, resp, askVars>>

\* lines 114-120: one turn of the loop over feeds
Fetch(p, parsed) ==
  /\ pc[p] = "fetch"
  /\ LET url == feeds[p][idx[p]]
     IN  items' = [items EXCEPT ![p] =
                     AppendEntries(@, source_name(parsed, url), parsed.entries)]
  /\ nfetch' = [nfetch EXCEPT ![p] = @ + 1]
  /\ idx' = [idx EXCEPT ![p] = @ + 1]
  /\ pc' = [pc EXCEPT ![p] = IF idx[p] = Len(feeds[p]) THEN "dedupe" ELSE "fetch"]
  /\ raw' = [raw EXCEPT ![p] = Append(@, [url |-> feeds[p][idx[p]], parsed |-> parsed])]
  /\ UNCHANGED <<clock, CACHE, heap, feeds, key, deduped, returned, begun, ncalls,
                 built>>
  /\ UNCHANGED <<pageVars, resp, askVars>>

\* lines 123-129: deduped is a new list, filled from items
DedupeStep(p) ==
  /\ pc[p] = "dedupe"
  /\ heap' = Append(heap, Dedupe(items[p]))
  /\ deduped' = [deduped EXCEPT ![p] = Len(heap) + 1]
  /\ pc' = [pc EXCEPT ![p] = "sort"]
  /\ built' = Append(built, raw[p])
  /\ UNCHANGED <<clock, CACHE, feeds, key, idx, items, nfetch, returned, begun,
                 ncalls, raw>>
  /\ UNCHANGED <<pageVars, resp, askVars>>

\* line 131: deduped.sort(...), in place
SortStep(p) ==
  /\ pc[p] = "sort"
  /\ heap' = [heap EXCEPT ![deduped[p]] = SortInPlace(@)]
  /\ pc' = [pc EXCEPT ![p] = "store"]
  /\ UNCHANGED <<clock, CACHE, feeds, key, idx, items, deduped, nfetch, returned,
                 begun, ncalls, raw, built>>
  /\ UNCHANGED <<pageVars, resp, askVars>>

\* line 132: CACHE[key] = {"ts": time.time(), "items": deduped}
Store(p) ==
  /\ pc[p] = "store"
  /\ CACHE' = CacheStore(CACHE, key[p], [ts |-> clock, items |-> deduped[p]])
  /\ pc' = [pc EXCEPT ![p] = "ret"]
  /\ UNCHANGED <<clock, heap, feeds, key, idx, items, deduped, nfetch, returned,
                 begun, ncalls, raw, built>>
  /\ UNCHANGED <<pageVars, resp, askVars>>

\* lines 111 and 133: the call returns its list
Return(p) ==
  /\ pc[p] = "ret"
  /\ returned' = returned \cup
       {[key |-> key[p], list |-> deduped[p], nfetch |-> nfetch[p]]}
  /\ pc' = [pc EXCEPT ![p] = "idle"]
  /\ feeds' = [feeds EXCEPT ![p] = << >>]
  /\ key' = [key EXCEPT ![p] = << >>]
  /\ idx' = [idx EXCEPT ![p] = 0]
  /\ items' = [items EXCEPT ![p] = << >>]
  /\ deduped' = [deduped EXCEPT ![p] = 0]
  /\ nfetch' = [nfetch EXCEPT ![p] = 0]
  /\ raw' = [raw EXCEPT ![p] = << >>]
  /\ UNCHANGED <<clock, CACHE, heap, begun, ncalls, built>>
  /\ UNCHANGED <<pageVars, resp, askVars>>

\* the wall clock moves on, by half a TTL window
Tick ==
  /\ clock + TTL_SECONDS \div 2 <= MaxTicks * (TTL_SECONDS \div 2)
  /\ clock' = clock + TTL_SECONDS \div 2
  /\ UNCHANGED <<CACHE, heap, pc, feeds, key, idx, items, deduped, nfetch,
                 returned, begun, ncalls, raw, built>>
  /\ UNCHANGED <<pageVars, resp, askVars>>

\* a thread fetches what the source serves now
FetchNow(p) ==
  /\ pc[p] = "fetch"
  /\ \E parsed \in ParsedDocs(feeds[p][idx[p]], clock) : Fetch(p, parsed)

Next ==
  \/ \E p \in Req, tab \in {"climate", "energy"} : Begin(p, FEED_GROUPS[tab])
  \/ \E p \in Req : FetchNow(p)
  \/ \E p \in Req : DedupeStep(p)
  \/ \E p \in Req : SortStep(p)
  \/ \E p \in Req : Store(p)
  \/ \E p \in Req : Return(p)
  \/ Tick

Spec == InitServer /\ [][Next]_vars

\* ------------------------------------------------------ shapes of a list
NoDupLinks(l) == \A i, j \in 1..Len(l) : i < j => l[i].link # l[j].link

IsSortedDesc(l) ==
  \A i \in 1..(Len(l) - 1) : TimeGE(l[i].sort_time, l[i + 1].sort_time)

Elems(l) == {l[i] : i \in 1..Len(l)}

Links(l) == {l[i].link : i \in 1..Len(l)}

\* l holds one article of its for every link of its, and nothing else
WholeOf(l, its) == Elems(l) \subseteq Elems(its) /\ Links(l) = Links(its)

Missed(p) == idx[p] > 0

\* ------------------------------------------------------------- the cache
\* C1: of two calls for one feed set, the second begun after the first has
\* returned: in the same 300-second bucket the second fetches nothing and
\* returns the very list the first returned; as the first call of a later
\* bucket it fetches every feed again and stores a new entry.
C1_SameListWithinBucket ==
  [][\A p \in Req :
       /\ (pc[p] = "idle" /\ pc'[p] # "idle") =>
            \A e \in returned :
               e.key[1] = key'[p][1] =>
                 /\ e.key[2] = key'[p][2] =>
                      pc'[p] = "ret" /\ deduped'[p] = e.list
                 /\ (e.key[2] < key'[p][2] /\ key'[p] \notin begun) =>
                      pc'[p] = "fetch"
       /\ (pc[p] = "ret" /\ pc'[p] = "idle" /\ Missed(p)) =>
            /\ nfetch[p] = Len(feeds[p])
            /\ key[p] \in DOMAIN CACHE
    ]_vars

\* The second half of C1 alone: the first call of a later bucket misses,
\* fetches every feed and leaves an entry under its key.
FirstCallOfBucketRefetches ==
  [][\A p \in Req :
       /\ (pc[p] = "idle" /\ pc'[p] # "idle" /\ key'[p] \notin begun) =>
            pc'[p] = "fetch"
       /\ (pc[p] = "ret" /\ pc'[p] = "idle" /\ Missed(p)) =>
            /\ nfetch[p] = Len(feeds[p])
            /\ key[p] \in DOMAIN CACHE
    ]_vars

\* C7: under every interleaving of calls that miss on one key, each entry of
\* CACHE sits under a key some call computed and holds a list without
\* duplicate links, sorted, that is never changed once stored or returned;
\* every call that has built its list returns the whole deduplicated and
\* sorted list of what it fetched.
StoredListsWhole ==
  /\ DOMAIN CACHE \subseteq begun
  /\ \A k \in DOMAIN CACHE :
       /\ CACHE[k].items \in 1..Len(heap)
       /\ NoDupLinks(heap[CACHE[k].items])
       /\ IsSortedDesc(heap[CACHE[k].items])
  /\ \A p \in Req :
       pc[p] = "ret" =>
         /\ NoDupLinks(heap[deduped[p]])
         /\ IsSortedDesc(heap[deduped[p]])
         /\ Missed(p) => WholeOf(heap[deduped[p]], items[p])

PublishedListsFrozen ==
  /\ \A k \in DOMAIN CACHE : heap'[CACHE[k].items] = heap[CACHE[k].items]
  /\ \A e \in returned : heap'[e.list] = heap[e.list]
  /\ \A p \in Req : pc[p] = "store" /\ pc'[p] = "ret" =>
       /\ CACHE'[key[p]].items = deduped[p]
       /\ WholeOf(heap[deduped[p]], items[p])

C7_RaceOnlyDuplicatesWork == []StoredListsWhole /\ [][PublishedListsFrozen]_vars

\* two calls have missed on one key; one has stored, the other is about to
C7_Witness ==
  \E p, q \in Req :
    /\ p # q /\ key[p] = key[q]
    /\ pc[p] = "ret" /\ Missed(p)
    /\ pc[q] = "store"
    /\ Len(heap[deduped[p]]) >= 2

\* C9: no step removes a key of CACHE, and a call that hits reads the entry
\* of the current bucket only, so the entries of past buckets stay, unread.
C9_CacheOnlyGrows ==
  [][/\ DOMAIN CACHE \subseteq DOMAIN CACHE'
     /\ \A p \in Req : (pc[p] = "idle" /\ pc'[p] = "ret") =>
          /\ key'[p][2] = now_bucket(clock)
          /\ deduped'[p] = CACHE[key'[p]].items
    ]_vars

\* an entry of a past bucket is kept beside the entry of the current one
C9_Witness ==
  \E k, l \in DOMAIN CACHE :
    k[1] = l[1] /\ k[2] < l[2] /\ l[2] = now_bucket(clock)

\* ------------------------------------------- one thread, any feed contents
\* load_articles_from, called by one thread for the climate group, the
\* sources serving any document of WideDocs.
\* the thread fetches any document
FetchAny(p) ==
  /\ pc[p] = "fetch"
  /\ \E parsed \in WideDocs(feeds[p][idx[p]]) : Fetch(p, parsed)

NextLoad ==
  \/ Begin(1, FEED_GROUPS["climate"])
  \/ FetchAny(1)
  \/ DedupeStep(1)
  \/ SortStep(1)
  \/ Store(1)
  \/ Return(1)

SpecLoad == InitServer /\ [][NextLoad]_vars

\* the articles a call came across, in feed order then entry order: the
\* entries with a title and a link, normalised
RECURSIVE Encountered(_)
Encountered(docs) ==
  IF docs = << >> THEN << >>
  ELSE LET d == Head(docs)
           src == IF "title" \in DOMAIN d.parsed.feed
                  THEN d.parsed.feed["title"] ELSE d.url
           has(e) == /\ "title" \in DOMAIN e /\ strip(e["title"]) # << >>
                     /\ "link" \in DOMAIN e /\ e["link"] # ""
           kept == SelectSeq(d.parsed.entries, has)
       IN  [i \in 1..Len(kept) |->
              [entry |-> kept[i], article |-> normalize_entry(src, kept[i])]]
           \o Encountered(Tail(docs))

\* the place of the first of es with the link
FirstAt(es, link) ==
  CHOOSE i \in 1..Len(es) :
    /\ es[i].article.link = link
    /\ \A j \in 1..(i - 1) : es[j].article.link # link

\* the list thread p is about to return, and what it was built from
RetList(p) == heap[deduped[p]]

RetFrom(p) == Encountered(built[deduped[p]])

\* C2: a returned list holds no two articles with one link, and holds, for
\* each link come across, the first article come across with it, in feed
\* order then entry order.
C2_FirstSeenWins ==
  \A p \in Req : pc[p] = "ret" =>
    LET l == RetList(p)
        es == RetFrom(p)
    IN  /\ NoDupLinks(l)
        /\ Links(l) = {es[i].article.link : i \in 1..Len(es)}
        /\ \A i \in 1..Len(l) : l[i] = es[FirstAt(es, l[i].link)].article

\* a link came across twice, under different titles, is returned once, and
\* by a call that hit the cache
C2_Witness ==
  \E p \in Req :
    /\ pc[p] = "ret" /\ ~Missed(p)
    /\ \E i, j \in 1..Len(RetFrom(p)) :
         /\ i < j
         /\ RetFrom(p)[i].article.link = RetFrom(p)[j].article.link
         /\ RetFrom(p)[i].article # RetFrom(p)[j].article
         /\ RetFrom(p)[i].article.source # RetFrom(p)[j].article.source

\* C3: a returned list is in descending order of sort_time, and articles of
\* equal sort_time stand in the order of the deduplicated sequence.
C3_SortedStable ==
  \A p \in Req : pc[p] = "ret" =>
    LET l == RetList(p)
        es == RetFrom(p)
    IN  /\ IsSortedDesc(l)
        /\ \A i, j \in 1..Len(l) :
             (i < j /\ l[i].sort_time = l[j].sort_time) =>
               FirstAt(es, l[i].link) < FirstAt(es, l[j].link)

\* two articles of equal sort_time are returned behind a later one that was
\* come across after them
C3_Witness ==
  \E p \in Req :
    /\ pc[p] = "ret"
    /\ LET l == RetList(p)
           es == RetFrom(p)
       IN  \E i, j \in 1..Len(l) :
             /\ 1 < i /\ i < j /\ l[i].sort_time = l[j].sort_time
             /\ FirstAt(es, l[1].link) > FirstAt(es, l[j].link)

HasStamp(e) == "published_parsed" \in DOMAIN e \/ "updated_parsed" \in DOMAIN e

\* the entry the article of a returned list was made from
EntryOf(p, a) == RetFrom(p)[FirstAt(RetFrom(p), a.link)].entry

\* C8 as claimed: an entry without a timestamp gets the epoch as sort_time,
\* and in a returned list no article with a timestamp stands after an
\* article without one.
C8_UnstampedLast ==
  \A p \in Req : pc[p] = "ret" =>
    LET l == RetList(p)
    IN  /\ \A i \in 1..Len(l) :
             ~HasStamp(EntryOf(p, l[i])) => l[i].sort_time = gmtime0
        /\ \A i, j \in 1..Len(l) :
             (i < j /\ ~HasStamp(EntryOf(p, l[i]))) => ~HasStamp(EntryOf(p, l[j]))

\* C8 amended: an entry without a timestamp gets the epoch as sort_time, and
\* in a returned list no article stamped later than the epoch stands after an
\* article without a timestamp.
C8_UnstampedAfterLater ==
  \A p \in Req : pc[p] = "ret" =>
    LET l == RetList(p)
    IN  /\ \A i \in 1..Len(l) :
             ~HasStamp(EntryOf(p, l[i])) => l[i].sort_time = gmtime0
        /\ \A i, j \in 1..Len(l) :
             (i < j /\ ~HasStamp(EntryOf(p, l[i]))) =>
               \/ ~HasStamp(EntryOf(p, l[j]))
               \/ ~TimeLT(gmtime0, l[j].sort_time)

\* an article without a timestamp is returned behind one stamped after the
\* epoch and before one stamped before the epoch
C8_Witness ==
  \E p \in Req :
    /\ pc[p] = "ret"
    /\ LET l == RetList(p)
       IN  \E i, j, k \in 1..Len(l) :
             /\ i < j /\ j < k
             /\ HasStamp(EntryOf(p, l[i])) /\ TimeLT(gmtime0, l[i].sort_time)
             /\ ~HasStamp(EntryOf(p, l[j]))
             /\ HasStamp(EntryOf(p, l[k])) /\ TimeLT(l[k].sort_time, gmtime0)

\* -------------------------------------------------------------- paginate
Max2(a, b) == IF a >= b THEN a ELSE b

Min2(a, b) == IF a <= b THEN a ELSE b

\* math.ceil(total / per_page) for per_page > 0 (the quotient is a float; it
\* is exact for list lengths)
CeilDiv(a, b) == (a + b - 1) \div b

\* items[start:end]: a negative index counts from the end, and both are cut
\* to the list
PySlice(l, start, end) ==
  LET lo == IF start < 0 THEN Max2(Len(l) + start, 0) ELSE Min2(start, Len(l))
      hi == IF end < 0 THEN Max2(Len(l) + end, 0) ELSE Min2(end, Len(l))
  IN  IF lo >= hi THEN << >> ELSE SubSeq(l, lo + 1, hi)

\* a paginate that does not clamp the page
paginate_unclamped(its, page, per_page) ==
  LET total == Len(its)
      total_pages == Max2(1, CeilDiv(total, per_page))
      start == (page - 1) * per_page
  IN  [slice |-> PySlice(its, start, start + per_page), page |-> page,
       total_pages |-> total_pages, total |-> total]

\* a paginate whose slice ends one item early
paginate_short(its, page, per_page) ==
  LET total == Len(its)
      total_pages == Max2(1, CeilDiv(total, per_page))
      pg == Max2(1, Min2(page, total_pages))
      start == (pg - 1) * per_page
  IN  [slice |-> PySlice(its, start, start + per_page - 1), page |-> pg,
       total_pages |-> total_pages, total |-> total]

\* lines 135-141
paginate(its, page, per_page) ==
  LET total == Len(its)
      total_pages == Max2(1, CeilDiv(total, per_page))
      pg == Max2(1, Min2(page, total_pages))
      start == (pg - 1) * per_page
      end == start + per_page
  IN  [slice |-> PySlice(its, start, end), page |-> pg,
       total_pages |-> total_pages, total |-> total]

PageArgs == (0 - MaxPageArg)..MaxPageArg

\* any list of at most MaxTotal items, told apart by their places, and any
\* positive page size
InitPaginate ==
  /\ ServerIdle /\ resp = NoResp /\ AskIdle
  /\ \E n \in 0..MaxTotal : pg_items = [i \in 1..n |-> i]
  /\ pg_per_page \in 1..MaxPerPage
  /\ pg_arg = 0
  /\ pg_out = NoOut
  /\ pg_walk = << >>

\* a request for any page
AskPage(page) ==
  /\ pg_arg' = page
  /\ pg_out' = paginate(pg_items, page, pg_per_page)
  /\ UNCHANGED <<pg_items, pg_per_page, pg_walk>>
  /\ UNCHANGED <<srvVars, resp, askVars>>

\* a reader turns to the next page, from page 1 to the last
TurnPage ==
  /\ LET out == paginate(pg_items, Len(pg_walk) + 1, pg_per_page)
     IN  /\ Len(pg_walk) < out.total_pages
         /\ pg_walk' = Append(pg_walk, out.slice)
  /\ UNCHANGED <<pg_items, pg_per_page, pg_arg, pg_out>>
  /\ UNCHANGED <<srvVars, resp, askVars>>

NextPaginate ==
  \/ \E page \in PageArgs : AskPage(page)
  \/ TurnPage

SpecPaginate == InitPaginate /\ [][NextPaginate]_vars

\* the least n with n * per_page >= total
PagesFor(total, per_page) ==
  CHOOSE n \in 0..total :
    n * per_page >= total /\ (n > 0 => (n - 1) * per_page < total)

\* C4: for every list and every page asked for, below 1 and beyond the last
\* page included, paginate returns total_pages = max(1, ceil(total/per_page)),
\* the page asked for clamped into [1, total_pages], the length of the list,
\* and the items at places (page-1)*per_page+1 to min(page*per_page, total)
\* of the clamped page.
C4_PageClamped ==
  pg_arg # 0 \/ pg_out # NoOut =>
    LET total == Len(pg_items)
        pages == Max2(1, PagesFor(total, pg_per_page))
        page == IF pg_arg < 1 THEN 1 ELSE IF pg_arg > pages THEN pages ELSE pg_arg
        first == (page - 1) * pg_per_page + 1
        last == Min2(page * pg_per_page, total)
    IN  /\ pg_out.total_pages = pages
        /\ pg_out.page = page
        /\ pg_out.total = total
        /\ pg_out.slice = [i \in 1..(last - first + 1) |-> pg_items[first + i - 1]]

\* 23 items, 10 to a page, page 5 asked for: page 3 with items 21 to 23
C4_Witness ==
  /\ Len(pg_items) = 23 /\ pg_per_page = 10 /\ pg_arg = 5
  /\ pg_out.page = 3 /\ pg_out.slice = <<21, 22, 23>>

RECURSIVE Flatten(_)
Flatten(ss) == IF ss = << >> THEN << >> ELSE Head(ss) \o Flatten(Tail(ss))

\* C10: the slices of pages 1 to total_pages, joined in page order, are the
\* list, and none of them is empty but page 1 of the empty list.
C10_PagesPartition ==
  LET pages == Max2(1, PagesFor(Len(pg_items), pg_per_page))
  IN  /\ Len(pg_walk) <= pages
      /\ Len(pg_walk) = pages => Flatten(pg_walk) = pg_items
      /\ \A i \in 1..Len(pg_walk) : pg_walk[i] = << >> => pg_items = << >>

\* every page of a list of three pages has been read, the last one not full
C10_Witness ==
  /\ Len(pg_walk) = 3 /\ Len(pg_items) = 23 /\ pg_per_page = 10
  /\ Len(pg_walk[3]) = 3

\* ------------------------------------------------- tab pages and /search
Chars == {" ", "B"}

Queries == SeqsUpTo(Chars, MaxQueryLen)

\* FEED_GROUPS.get(tab, FEED_GROUPS["dashboard"])
FeedsOfTab(tab) ==
  IF tab \in DOMAIN FEED_GROUPS THEN FEED_GROUPS[tab] ELSE FEED_GROUPS["dashboard"]

\* what the sources serve the page routes: articles with titles and summaries
Story1 == [title |-> <<"B", "a">>, link |-> "x", summary |-> <<"a", " ">>,
           published_parsed |-> T2024a]
Story2 == [title |-> <<"a">>, link |-> "y", description |-> <<"b">>,
           published_parsed |-> T2024b]
Story3 == [title |-> <<"b">>, link |-> "z", updated_parsed |-> T2023]

PageDocs(url) ==
  CASE url = "www.ft.com" ->
         { [feed |-> [title |-> "FT"], entries |-> <<Story1, Story2>>] }
    [] url = "www.economist.com" ->
         { Unparsed, [feed |-> << >>, entries |-> <<Story3, Story1>>] }
    [] url = "news.un.org" ->
         { Unparsed, [feed |-> [title |-> "UN"], entries |-> <<Story3>>] }
    [] OTHER ->
         { [feed |-> [title |-> "BBC"], entries |-> <<Story2>>] }

\* the loop of lines 114-120 over documents already fetched
RECURSIVE ItemsOf(_, _)
ItemsOf(acc, docs) ==
  IF docs = << >> THEN acc
  ELSE ItemsOf(AppendEntries(acc, source_name(Head(docs).parsed, Head(docs).url),
                             Head(docs).parsed.entries),
               Tail(docs))

\* the ways the sources of fs may answer one call
RECURSIVE DocChoices(_)
DocChoices(fs) ==
  IF fs = << >> THEN {<< >>}
  ELSE {<<d>> \o ds : d \in PageDocs(Head(fs)), ds \in DocChoices(Tail(fs))}

\* load_articles_from run from its first line to its return by a thread that
\* nothing interrupts.  Loaded(fs) is the list it returns: the stored one on
\* a hit, a new one on a miss.
Loaded(fs) ==
  IF CacheKey(fs, clock) \in DOMAIN CACHE
  THEN CACHE[CacheKey(fs, clock)].items
  ELSE Len(heap) + 1

LoadWhole(fs) ==
  LET k == CacheKey(fs, clock)
  IN  IF k \in DOMAIN CACHE
      THEN UNCHANGED <<CACHE, heap, built>>
      ELSE \E ds \in DocChoices(fs) :
             LET docs == [i \in 1..Len(fs) |-> [url |-> fs[i], parsed |-> ds[i]]]
             IN  /\ heap' = Append(heap, SortInPlace(Dedupe(ItemsOf(<< >>, docs))))
                 /\ built' = Append(built, docs)
                 /\ CACHE' = CacheStore(CACHE, k,
                                        [ts |-> clock, items |-> Len(heap) + 1])

\* line 159 read without its strip()
q_unstripped(q) == q

\* line 159: (request.args.get("q") or "").strip()
q_stripped(q) == strip(q)

Matches(q, a) == StrIn(q, lower(a.title)) \/ StrIn(q, lower(a.summary))

\* lines 160-162: the filter of a tab page
TabFilter(its, q_raw) ==
  IF q_raw # << >>
  THEN SelectSeq(its, LAMBDA a : Matches(lower(q_raw), a))
  ELSE its

\* lines 187-188: the filter of /search
SearchFilter(its, query) ==
  LET ql == lower(query)
  IN  SelectSeq(its, LAMBDA a : ql # << >> /\ Matches(ql, a))

srvKept == <<clock, pc, feeds, key, idx, items, deduped, nfetch, returned, begun,
             ncalls, raw>>

\* lines 152-178: a tab page
render_feed_page(tab_key, page_arg, q_arg) ==
  /\ LoadWhole(FeedsOfTab(tab_key))
  /\ LET lst == Loaded(FeedsOfTab(tab_key))
         q_raw == q_stripped(q_arg)
         shown == TabFilter(heap'[lst], q_raw)
         out == paginate(shown, page_arg, PER_PAGE)
     IN  resp' = [route |-> "tab", tab |-> tab_key, loaded |-> lst,
                  listed |-> shown, articles |-> out.slice, page |-> out.page,
                  total_pages |-> out.total_pages, total_articles |-> out.total,
                  q |-> q_raw, q_arg |-> q_arg]
  /\ UNCHANGED <<srvKept, pageVars, askVars>>

\* lines 181-201: GET /search
search(tab, q_arg) ==
  /\ LoadWhole(FeedsOfTab(tab))
  /\ LET lst == Loaded(FeedsOfTab(tab))
         query == q_stripped(q_arg)
         results == SearchFilter(heap'[lst], query)
     IN  resp' = [route |-> "search", tab |-> tab, loaded |-> lst,
                  listed |-> results, articles |-> results, page |-> 1,
                  total_pages |-> 1, total_articles |-> Len(results),
                  q |-> query, q_arg |-> q_arg]
  /\ UNCHANGED <<srvKept, pageVars, askVars>>

\* the page parameter the tab pages are asked with
PageParams == {1, 2}

\* the tab parameter of /search: a tab, or a name that is none
SearchTabs == {"climate", "energy", "nowhere"}

NextPages ==
  \/ \E tab \in {"climate", "energy"}, page \in PageParams, q \in Queries :
       render_feed_page(tab, page, q)
  \/ \E tab \in SearchTabs, q \in Queries : search(tab, q)

SpecPages == InitServer /\ [][NextPages]_vars

\* the whole list of the group the last request named
FullList == heap[CACHE[CacheKey(FeedsOfTab(resp.tab), clock)].items]

\* C5 as claimed: in a tab page and in /search, a query that is empty once
\* trimmed filters nothing: the list handed on for display is the whole
\* list of the group.
C5_EmptyQueryKeepsAll ==
  (resp # NoResp /\ strip(resp.q_arg) = << >>) => resp.listed = FullList

\* C5 amended: in a tab page a query that is empty once trimmed filters
\* nothing, the list paginated being the whole list of the group; in /search
\* such a query leaves no article at all.
C5_EmptyQueryKeepsAllOnTabs ==
  (resp # NoResp /\ strip(resp.q_arg) = << >>) =>
    IF resp.route = "tab"
    THEN /\ resp.listed = FullList
         /\ resp.total_articles = Len(FullList)
         /\ resp.articles = PySlice(FullList, 0, PER_PAGE)
    ELSE /\ resp.listed = << >>
         /\ resp.total_articles = 0

\* a tab page asked with a query of blanks shows every article of a group
\* that has some
C5_Witness ==
  /\ resp # NoResp /\ resp.route = "tab"
  /\ resp.q_arg = <<" ", " ">>
  /\ Len(resp.articles) >= 2

\* ------------------------------------------------------- assistant proxy
\* markupsafe.escape, character by character
EscapeChar(c) ==
  CASE c = "<" -> "&lt;" [] c = ">" -> "&gt;" [] c = "&" -> "&amp;" [] OTHER -> c

escape(text) == [i \in 1..Len(text) |-> EscapeChar(text[i])]

\* What the chat-completion call may do: answer with a text, answer with a
\* message whose content is None, answer without choices (resp.choices[0]
\* raises IndexError), or raise an error of the client.
ReplyTexts == {<<"a">>, <<"<", "a">>, <<"&">>}

CallResults ==
  {[kind |-> "content", text |-> t] : t \in ReplyTexts}
    \cup {[kind |-> "none"], [kind |-> "nochoices"],
          [kind |-> "raise", exc |-> "APIError", text |-> <<"<">>]}

\* a handler that catches the client's own errors only
CatchesApiErrors(exc) == exc = "APIError"

\* line 237: except Exception
Catches(exc) == exc \in {"APIError", "IndexError"}

\* lines 233-235: the reply, escaped (the replies have no line breaks for
\* replace to act on)
ReplyAnswer(r) == escape(IF r.kind = "content" THEN r.text ELSE << >>)

\* line 238: the fixed words, then the escaped message of the exception
ErrorAnswer(msg) == <<"<em>Failed to fetch reply.</em><br>">> \o escape(msg)

\* any credential, set or empty, and no request yet
InitAsk ==
  /\ ServerIdle /\ PageIdle /\ resp = NoResp
  /\ api_key \in {"", "gsk"}
  /\ ask_pc = "idle"
  /\ ask_form = << >>
  /\ ask_q = << >>
  /\ ask_calls = 0
  /\ ask_resp = NoResp
  /\ asks = 0

\* lines 210-217: the form field is trimmed; an empty question redirects, a
\* missing credential answers with the fixed notice, else the call is made
AskBegin(q_arg) ==
  /\ ask_pc = "idle"
  /\ asks < MaxAsks
  /\ asks' = asks + 1
  /\ ask_form' = q_arg
  /\ LET q == strip(q_arg)
     IN  /\ ask_q' = q
         /\ IF q = << >>
            THEN /\ ask_resp' = [route |-> "ask", kind |-> "redirect", answer |-> << >>]
                 /\ ask_calls' = 0
                 /\ ask_pc' = "idle"
            ELSE IF api_key = ""
            THEN /\ ask_resp' = [route |-> "ask", kind |-> "not_configured",
                                 answer |-> <<"<em>GROQ_API_KEY not configured.</em>">>]
                 /\ ask_calls' = 0
                 /\ ask_pc' = "idle"
            ELSE /\ ask_resp' = NoResp
                 /\ ask_calls' = 1
                 /\ ask_pc' = "calling"
  /\ UNCHANGED <<api_key, srvVars, pageVars, resp>>

\* lines 218-239: the call comes back; what is raised inside the try block is
\* caught if the handler catches it, and is a fault of the request if not
AskEnd(r) ==
  /\ ask_pc = "calling"
  /\ ask_pc' = "idle"
  /\ LET exc == CASE r.kind = "raise" -> r.exc
                  [] r.kind = "nochoices" -> "IndexError"
                  [] OTHER -> "none"
         msg == IF r.kind = "raise" THEN r.text ELSE <<"i">>
     IN  ask_resp' =
           IF exc = "none"
           THEN [route |-> "ask", kind |-> "reply", answer |-> ReplyAnswer(r)]
           ELSE IF Catches(exc)
           THEN [route |-> "ask", kind |-> "error", answer |-> ErrorAnswer(msg)]
           ELSE [route |-> "ask", kind |-> "fault", answer |-> << >>]
  /\ UNCHANGED <<api_key, ask_form, ask_q, ask_calls, asks, srvVars, pageVars, resp>>

NextAsk ==
  \/ \E q \in SeqsUpTo({" ", "\n", "a"}, MaxQueryLen) : AskBegin(q)
  \/ \E r \in CallResults : AskEnd(r)

SpecAsk == InitAsk /\ [][NextAsk]_vars

\* C6: a request to /assistant/ask ends as a redirect (empty question), as
\* the fixed notice (a question, no credential), as the escaped reply or as
\* the error message, never as a fault; the chat-completion call is made at
\* most once, and only for a question with a credential configured.
C6_FourOutcomes ==
  /\ ask_calls <= 1
  /\ ask_calls = 1 => ask_q # << >> /\ api_key # ""
  /\ (asks > 0 /\ ask_pc = "idle") =>
       /\ ask_resp.kind \in {"redirect", "not_configured", "reply", "error"}
       /\ ask_resp.kind = "redirect" <=> ask_q = << >>
       /\ ask_resp.kind = "not_configured" <=> (ask_q # << >> /\ api_key = "")
       /\ ask_resp.kind \in {"reply", "error"} <=> ask_calls = 1
       /\ \A i \in 1..Len(ask_resp.answer) :
            ask_resp.kind \in {"reply"} => ask_resp.answer[i] \notin {"<", ">", "&"}

\* a call that came back without choices ended as the error message
C6_Witness ==
  /\ ask_pc = "idle" /\ ask_calls = 1
  /\ ask_resp.kind = "error"
  /\ ask_resp.answer = ErrorAnswer(<<"i">>)

====
